---- MODULE Spec2Model ----
(***************************************************************************)
(* A model of the research software encyclopedia orchestrator              *)
(* (rse.main.Encyclopedia): the catalog operations and the two annotation  *)
(* traversals, with the durable store and the in-memory repository objects *)
(* kept apart.                                                             *)
(***************************************************************************)
EXTENDS Integers, Sequences, FiniteSets, TLC

(* ---------------------------------------------------------------------- *)
(* Bounds and reference data                                               *)
(* ---------------------------------------------------------------------- *)

\* number of repository identifiers the catalog may hold
NumRepos == 2

\* number of (repository, item, annotator) answers already stored at start
MaxSeen == 2

RepoPool == <<"github/a/x", "github/a/y", "github/a/z", "github/a/w">>

UrlPool == <<"https://github.com/a/x", "https://github.com/a/y",
             "https://github.com/a/z", "https://github.com/a/w">>

Uids == {RepoPool[n] : n \in 1..NumRepos}

Urls == {UrlPool[n] : n \in 1..NumRepos}

Users == {"alice", "bob"}

None == "None"

\* the python repr of "no such repository" raised by the backend
RepoNotFoundError == "RepoNotFoundError"

VARIABLES
    store,        \* durable catalog: uid -> [uid, criteria, taxonomy]
    order,        \* the order in which list_repos reports the uids
    pc,           \* position of the running operation
    args,         \* arguments of the running annotation call
    gen,          \* state of the traversal generator
    objs,         \* in-memory repository objects, by position in gen.repos
    cur,          \* the pair the generator handed out last
    last,         \* annotate_criteria's `last` (an object of objs, or 0)
    annotations,  \* the mapping the annotation call returns
    yielded,      \* history: the pairs handed out, in order
    responses,    \* history: the responses merged in memory, in order
    saved,        \* history: the durable writes, in order
    store0,       \* history: the catalog when the call started
    answer,       \* the tokens of the last answer of choice_prompt
    call          \* the last catalog operation: arguments, outcome, backend use

vars == <<store, order, pc, args, gen, objs, cur, last, annotations,
          yielded, responses, saved, store0, answer, call>>

(* ---------------------------------------------------------------------- *)
(* Collaborators                                                           *)
(* ---------------------------------------------------------------------- *)

\* get_parser(ref).uid: a reference is the canonical uid or the url form
ParserUid(ref) ==
    IF ref \in Uids THEN ref
    ELSE LET n == CHOOSE k \in 1..NumRepos : UrlPool[k] = ref IN RepoPool[n]

\* get_criteria(): the ordered criteria catalog (uids of the items)
list_criteria == <<"c1", "c2">>

CriteriaItems == {list_criteria[n] : n \in DOMAIN list_criteria}

NoAnswers == [p \in {} |-> TRUE]

NoTaxonomy == [u \in {} |-> <<>>]

\* the descriptive fields the parser may fetch for a repository
Descriptions == {"d0", "d1"}

NewRepo(uid) ==
    [uid |-> uid, description |-> "d0", criteria |-> NoAnswers,
     taxonomy |-> NoTaxonomy]

\* Repository.has_criteria_annotation
has_criteria_annotation(repo, item, username) ==
    <<item, username>> \in DOMAIN repo.criteria

\* Repository.update_criteria
update_criteria(repo, item, username, response) ==
    [repo EXCEPT !.criteria =
        [p \in (DOMAIN repo.criteria) \cup {<<item, username>>} |->
            IF p = <<item, username>> THEN response ELSE repo.criteria[p]]]

\* Repository.save_criteria: the backend persists the object's criteria
save_criteria(st, repo) ==
    [st EXCEPT ![repo.uid].criteria = repo.criteria]

\* db.exists
db_exists(st, uid) == uid \in DOMAIN st

\* db.list_repos(None): one [uid] row per repository
list_repos(ord) == ord

(* ---------------------------------------------------------------------- *)
(* Criteria traversal (the generator)                                      *)
(* ---------------------------------------------------------------------- *)

\* a traversal that ignores what the user has answered already
YieldsPairAlways(unseen_only, repo, item, username) == TRUE

\* a traversal that hands out the answered pairs instead of the open ones
YieldsPairSeen(unseen_only, repo, item, username) ==
    \/ unseen_only /\ has_criteria_annotation(repo, item, username)
    \/ ~unseen_only

\* lines 236-241: is the pair handed out?
YieldsPair(unseen_only, repo, item, username) ==
    \/ unseen_only /\ ~has_criteria_annotation(repo, item, username)
    \/ ~unseen_only

\* a traversal that keeps the caller's unseen_only when a repository is given
GenReposKeepsUnseen(ord, unseen_only, repo) ==
    IF repo = None
    THEN [repos |-> list_repos(ord), unseen_only |-> unseen_only]
    ELSE [repos |-> <<ParserUid(repo)>>, unseen_only |-> unseen_only]

\* lines 225-230 and 247-252: the repositories to walk and the effective
\* unseen_only
GenRepos(ord, unseen_only, repo) ==
    IF repo = None
    THEN [repos |-> list_repos(ord), unseen_only |-> unseen_only]
    ELSE [repos |-> <<ParserUid(repo)>>, unseen_only |-> FALSE]

\* lines 233-241: run the generator from repository i, after item j, to the
\* next yield, to exhaustion or to the lookup error of self.get
RECURSIVE Advance(_, _, _, _, _, _)
Advance(st, g, username, i, j, heap) ==
    IF i = 0 \/ j >= Len(list_criteria)
    THEN IF i + 1 > Len(g.repos)
         THEN [out |-> "exhausted", i |-> i, j |-> j, heap |-> heap]
         ELSE IF ~db_exists(st, g.repos[i + 1])
              THEN [out |-> "raised", i |-> i, j |-> j, heap |-> heap]
              ELSE Advance(st, g, username, i + 1, 0,
                           [k \in (DOMAIN heap) \cup {i + 1} |->
                               IF k = i + 1 THEN st[g.repos[i + 1]]
                               ELSE heap[k]])
    ELSE IF YieldsPair(g.unseen_only, heap[i], list_criteria[j + 1], username)
         THEN [out |-> "yield", i |-> i, j |-> j + 1, heap |-> heap]
         ELSE Advance(st, g, username, i, j + 1, heap)

(* ---------------------------------------------------------------------- *)
(* Criteria annotation                                                     *)
(* ---------------------------------------------------------------------- *)

\* get_github_username(): the name in the git configuration
get_github_username == "alice"

NoCall == [op |-> None, arg |-> None, value |-> <<>>, raised |-> None,
           backend |-> <<>>, before |-> None]

NoArgs == [username |-> None, atype |-> None, unseen_only |-> FALSE,
           repo |-> None, save |-> FALSE]

NoGen == [repos |-> <<>>, unseen_only |-> FALSE, i |-> 0, j |-> 0]

NoHeap == [k \in {} |-> NewRepo(None)]

NoCur == [obj |-> 0, item |-> None]

NoAnnotations == [u \in {} |-> NoAnswers]

\* lines 201-218 and 268-272: annotate dispatches to annotate_criteria, which
\* creates the generator (lines 225-230 run at its first step)
annotate_criteria(username, unseen_only, repo, save) ==
    /\ pc = "idle"
    /\ LET user == IF username = "" THEN get_github_username ELSE username
           g == GenRepos(order, unseen_only, repo)
       IN /\ args' = [username |-> user, atype |-> "criteria",
                      unseen_only |-> unseen_only, repo |-> repo,
                      save |-> save]
          /\ gen' = [repos |-> g.repos, unseen_only |-> g.unseen_only,
                     i |-> 0, j |-> 0]
    /\ annotations' = NoAnnotations
    /\ last' = 0
    /\ store0' = store
    /\ pc' = "pull"
    /\ UNCHANGED <<call, store, order, objs, cur, yielded, responses, saved,
                   answer>>

\* lines 270-272, 233-241: the for loop asks the generator for the next pair
GenNext ==
    /\ pc = "pull"
    /\ LET r == Advance(store, gen, args.username, gen.i, gen.j, objs)
       IN /\ gen' = [gen EXCEPT !.i = r.i, !.j = r.j]
          /\ objs' = r.heap
          /\ IF r.out = "yield"
             THEN /\ cur' = [obj |-> r.i, item |-> list_criteria[r.j]]
                  /\ yielded' = Append(yielded,
                                       <<r.heap[r.i].uid, list_criteria[r.j]>>)
                  /\ pc' = "boundary"
             ELSE /\ cur' = NoCur
                  /\ yielded' = yielded
                  /\ pc' = IF r.out = "raised" THEN "raised" ELSE "final"
    /\ UNCHANGED <<call, store, order, args, last, annotations, responses, saved,
                   store0, answer>>

SaveEntry(uid) ==
    [uid |-> uid, nyield |-> Len(yielded), nresp |-> Len(responses)]

\* a flush that does not look at the save argument
FlushLastAlways(lastobj, save) ==
    IF lastobj # 0
    THEN /\ store' = save_criteria(store, objs[lastobj])
         /\ saved' = Append(saved, SaveEntry(objs[lastobj].uid))
    ELSE UNCHANGED <<store, saved>>

\* lines 278-279 and 290-291: flush `last` when there is one and save is set
FlushLast(lastobj, save) ==
    IF lastobj # 0 /\ save
    THEN /\ store' = save_criteria(store, objs[lastobj])
         /\ saved' = Append(saved, SaveEntry(objs[lastobj].uid))
    ELSE UNCHANGED <<store, saved>>

\* lines 280-281 and 292-293
RecordLast(lastobj) ==
    IF lastobj # 0
    THEN annotations' =
            [u \in (DOMAIN annotations) \cup {objs[lastobj].uid} |->
                IF u = objs[lastobj].uid THEN objs[lastobj].criteria
                ELSE annotations[u]]
    ELSE UNCHANGED annotations

\* a loop that flushes on every pair, without comparing the uids
BoundaryEveryPair ==
    /\ pc = "boundary"
    /\ FlushLast(last, args.save)
    /\ RecordLast(last)
    /\ last' = cur.obj
    /\ pc' = "confirm"
    /\ UNCHANGED <<call, order, args, gen, objs, cur, yielded, responses, store0,
                   answer>>

\* a loop that leaves every write to the end of the run
BoundaryNoFlush ==
    /\ pc = "boundary"
    /\ IF last = 0 \/ objs[cur.obj].uid # objs[last].uid
       THEN /\ RecordLast(last)
            /\ last' = cur.obj
            /\ UNCHANGED <<store, saved>>
       ELSE UNCHANGED <<store, saved, annotations, last>>
    /\ pc' = "confirm"
    /\ UNCHANGED <<call, order, args, gen, objs, cur, yielded, responses, store0,
                   answer>>

\* lines 275-284: a pair of another repository than `last` arrived
Boundary ==
    /\ pc = "boundary"
    /\ IF last = 0 \/ objs[cur.obj].uid # objs[last].uid
       THEN /\ FlushLast(last, args.save)
            /\ RecordLast(last)
            /\ last' = cur.obj
       ELSE UNCHANGED <<store, saved, annotations, last>>
    /\ pc' = "confirm"
    /\ UNCHANGED <<call, order, args, gen, objs, cur, yielded, responses, store0,
                   answer>>

\* lines 286-287: the user answers, the answer is merged into the object
Confirm(response) ==
    /\ pc = "confirm"
    /\ objs' = [objs EXCEPT ![cur.obj] =
                  update_criteria(@, cur.item, args.username, response)]
    /\ responses' = Append(responses,
                           [uid |-> objs[cur.obj].uid, item |-> cur.item,
                            response |-> response])
    /\ pc' = "pull"
    /\ UNCHANGED <<call, store, order, args, gen, cur, last, annotations, yielded,
                   saved, store0, answer>>

\* a run that forgets the write after the loop
FinalNoFlush ==
    /\ pc = "final"
    /\ RecordLast(last)
    /\ pc' = "returned"
    /\ UNCHANGED <<call, store, saved, order, args, gen, objs, cur, last, yielded,
                   responses, store0, answer>>

\* lines 289-294: the traversal ended
Final ==
    /\ pc = "final"
    /\ FlushLast(last, args.save)
    /\ RecordLast(last)
    /\ pc' = "returned"
    /\ UNCHANGED <<call, order, args, gen, objs, cur, last, yielded, responses,
                   store0, answer>>

(* ---------------------------------------------------------------------- *)
(* Specification of a criteria annotation call on some catalog             *)
(* ---------------------------------------------------------------------- *)

InjSeqs(S) ==
    UNION {{s \in [1..n -> S] : \A a, b \in 1..n : s[a] = s[b] => a = b} :
           n \in 0..Cardinality(S)}

Range(s) == {s[n] : n \in DOMAIN s}

\* a stored repository on which the answers of `seen` were given
SeenRepo(uid, seen) ==
    [uid |-> uid,
     description |-> "d0",
     criteria |-> [p \in {<<t[2], t[3]>> : t \in {q \in seen : q[1] = uid}}
                      |-> TRUE],
     taxonomy |-> NoTaxonomy]

Quiet ==
    /\ pc = "idle"
    /\ args = NoArgs
    /\ gen = NoGen
    /\ objs = NoHeap
    /\ cur = NoCur
    /\ last = 0
    /\ annotations = NoAnnotations
    /\ yielded = <<>>
    /\ responses = <<>>
    /\ saved = <<>>
    /\ store0 = store
    /\ answer = <<>>
    /\ call = NoCall

InitCriteria ==
    /\ order \in InjSeqs(Uids)
    /\ \E seen \in {s \in SUBSET (Range(order) \X CriteriaItems \X Users) :
                       Cardinality(s) <= MaxSeen} :
          store = [u \in Range(order) |-> SeenRepo(u, seen)]
    /\ Quiet

RepoArgs == {None} \cup Uids \cup {UrlPool[1]}

NextCriteria ==
    \/ \E username \in Users \cup {""}, unseen_only \in BOOLEAN,
          repo \in RepoArgs, save \in BOOLEAN :
          annotate_criteria(username, unseen_only, repo, save)
    \/ GenNext
    \/ Boundary
    \/ \E response \in BOOLEAN : Confirm(response)
    \/ Final

SpecCriteria == InitCriteria /\ [][NextCriteria]_vars

(* ---------------------------------------------------------------------- *)
(* Properties of the criteria traversal                                    *)
(* ---------------------------------------------------------------------- *)

AtYield == pc = "boundary"

YieldedUids == {yielded[n][1] : n \in DOMAIN yielded}

SaveCount(uid) == Cardinality({k \in DOMAIN saved : saved[k].uid = uid})

\* C1 as stated: with unseen_only set, for any repo argument, a pair is never
\* handed out when the user has answered it already on that repository.
C1_AnyRepoArg ==
    (AtYield /\ args.unseen_only)
        => ~has_criteria_annotation(objs[cur.obj], cur.item, args.username)

\* C1 (amended): with unseen_only set and no repository given, a pair is
\* never handed out when the user has answered it already on that
\* repository at the moment of the yield.
C1_UnseenNeverYieldsAnswered ==
    (AtYield /\ args.unseen_only /\ args.repo = None)
        => ~has_criteria_annotation(objs[cur.obj], cur.item, args.username)

\* a pair is handed out on a repository where the user answered another item
C1_Witness ==
    /\ AtYield /\ args.unseen_only /\ args.repo = None
    /\ \E item \in CriteriaItems :
          has_criteria_annotation(objs[cur.obj], item, args.username)

\* every (repository, item) pair in list order, repository first
AllPairs(ord) ==
    [n \in 1..(Len(ord) * Len(list_criteria)) |->
        <<ord[((n - 1) \div Len(list_criteria)) + 1],
          list_criteria[((n - 1) % Len(list_criteria)) + 1]>>]

OpenPairs(st, ord, username) ==
    LET Open(p) == <<p[2], username>> \notin DOMAIN st[p[1]].criteria
    IN SelectSeq(AllPairs(ord), Open)

\* C2: with unseen_only set and no repository given, the pairs handed out
\* are exactly the pairs the user had not answered, each once, by position
\* of the repository in list() and then of the item in the catalog.
C2_ExactOpenPairsInOrder ==
    (pc = "returned" /\ args.unseen_only /\ args.repo = None)
        => yielded = OpenPairs(store0, order, args.username)

\* repositories x, y; alice answered c1 on x: (x,c2), (y,c1), (y,c2)
C2_Witness ==
    /\ pc = "returned" /\ args.unseen_only /\ args.repo = None
    /\ args.username = "alice"
    /\ order = <<RepoPool[1], RepoPool[2]>>
    /\ DOMAIN store0[RepoPool[1]].criteria = {<<"c1", "alice">>}
    /\ yielded = <<<<RepoPool[1], "c2">>, <<RepoPool[2], "c1">>,
                   <<RepoPool[2], "c2">>>>

\* C3: a repository is written only after every response to its pairs was
\* merged, and only when the first pair of a later repository has been
\* handed out or the traversal has ended.
C3_NoWriteBeforeBoundary ==
    \A k \in DOMAIN saved :
        LET e == saved[k] IN
        /\ \A n \in DOMAIN yielded : yielded[n][1] = e.uid => n <= e.nresp
        /\ e.nresp >= 1 /\ yielded[e.nresp][1] = e.uid
        /\ \/ /\ e.nyield = e.nresp + 1
              /\ yielded[e.nyield][1] # e.uid
           \/ /\ e.nyield = e.nresp
              /\ Len(yielded) = e.nyield
              /\ k = Len(saved)
              /\ pc = "returned"

\* two repositories were written, the first after two answers
C3_Witness ==
    /\ Len(saved) = 2
    /\ saved[1].nresp = 2
    /\ saved[1].nyield = 3
    /\ pc = "returned"

\* C4: with save set, a repository is never written twice nor written without
\* a pair of it handed out, and when the run has returned every repository
\* with a pair handed out has been written exactly once.
C4_SavedOncePerTouchedRepo ==
    args.save =>
        \A u \in Uids :
            /\ SaveCount(u) <= 1
            /\ SaveCount(u) = 1 => u \in YieldedUids
            /\ (pc = "returned" /\ u \in YieldedUids) => SaveCount(u) = 1

\* a run returned having written a repository with two answers once and
\* having left a listed repository without open pairs unwritten
C4_Witness ==
    /\ pc = "returned" /\ args.save
    /\ \E u \in Uids :
          /\ Cardinality({n \in DOMAIN yielded : yielded[n][1] = u}) >= 2
          /\ SaveCount(u) = 1
    /\ \E u \in Range(order) : u \notin YieldedUids /\ SaveCount(u) = 0

\* repositories holding a merged response that no write has covered
Unsaved ==
    {u \in Uids :
        \E n \in DOMAIN responses :
            /\ responses[n].uid = u
            /\ ~\E k \in DOMAIN saved :
                  saved[k].uid = u /\ saved[k].nresp >= n}

\* C5: with save set, at most one repository holds merged responses that are
\* not written yet, and it is the repository of `last`.
C5_AtMostOneUnsaved ==
    args.save =>
        /\ Cardinality(Unsaved) <= 1
        /\ \A u \in Unsaved : last # 0 /\ objs[last].uid = u

\* a repository holds unwritten responses after another one was written
C5_Witness ==
    /\ args.save
    /\ Unsaved # {}
    /\ Len(saved) >= 1

(* ---------------------------------------------------------------------- *)
(* Taxonomy annotation                                                     *)
(* ---------------------------------------------------------------------- *)

\* number of tokens of one answer to the taxonomy prompt
MaxResponse == 2

\* get_taxonomy(): the ordered, flattened taxonomy catalog (uids)
list_taxonomy == <<"t0", "t1", "t2">>

\* the tokens an answer is made of: two items of the catalog and the first
\* index past its end
Tokens == {"0", "2", "3"}

\* choice_prompt(..., multiple=True): indices separated by single spaces;
\* an answer is kept as the list response.split(" ") makes of it
Answers == UNION {[1..n -> Tokens] : n \in 1..MaxResponse}

\* int(x) on a decimal token
IntOf(x) == CASE x = "0" -> 0 [] x = "1" -> 1 [] x = "2" -> 2
              [] x = "3" -> 3 [] x = "4" -> 4 [] x = "5" -> 5

IndexError == "IndexError"

\* items[n] of a python list: counts from the end when n is negative
ListItem(items, n) ==
    IF 0 <= n /\ n < Len(items) THEN items[n + 1]
    ELSE IF n < 0 /\ -n <= Len(items) THEN items[Len(items) + n + 1]
    ELSE IndexError

\* Repository.has_taxonomy_annotation
has_taxonomy_annotation(repo, username) ==
    /\ username \in DOMAIN repo.taxonomy
    /\ Len(repo.taxonomy[username]) > 0

\* Repository.save_taxonomy: the backend persists the object's taxonomy
save_taxonomy(st, repo) ==
    [st EXCEPT ![repo.uid].taxonomy = repo.taxonomy]

\* a comprehension without the length test
TaxonomyUidsUnfiltered(iter) ==
    LET picked == [n \in DOMAIN iter |-> ListItem(list_taxonomy, IntOf(iter[n]))]
    IN [raised |-> \E n \in DOMAIN picked : picked[n] = IndexError,
        uids |-> picked]

\* a comprehension whose length test is off by one
TaxonomyUidsOffByOne(iter) ==
    LET InRange(x) == IntOf(x) <= Len(list_taxonomy)
        kept == SelectSeq(iter, InRange)
        picked == [n \in DOMAIN kept |-> ListItem(list_taxonomy, IntOf(kept[n]))]
    IN [raised |-> \E n \in DOMAIN picked : picked[n] = IndexError,
        uids |-> picked]

\* lines 329-333: the comprehension over one iteration order of the set
TaxonomyUids(iter) ==
    LET InRange(x) == IntOf(x) < Len(list_taxonomy)
        kept == SelectSeq(iter, InRange)
        picked == [n \in DOMAIN kept |-> ListItem(list_taxonomy, IntOf(kept[n]))]
    IN [raised |-> \E n \in DOMAIN picked : picked[n] = IndexError,
        uids |-> picked]

\* a comprehension over response.split(" ") itself, without the set
SetIterationsOfList(tokens) == {tokens}

\* line 331: the orders in which set(response.split(" ")) may be iterated
\* (the hash of a str differs from one interpreter run to the next)
SetIterations(tokens) ==
    {s \in [1..Cardinality(Range(tokens)) -> Range(tokens)] :
        \A a, b \in DOMAIN s : s[a] = s[b] => a = b}

\* a traversal that presents every repository
YieldsRepoAlways(unseen_only, repo, username) == TRUE

\* lines 255-260: is the repository handed out?
YieldsRepo(unseen_only, repo, username) ==
    \/ unseen_only /\ ~has_taxonomy_annotation(repo, username)
    \/ ~unseen_only

\* lines 255-260: run the generator after repository i to the next yield,
\* to exhaustion or to the lookup error of self.get
RECURSIVE AdvanceTaxonomy(_, _, _, _, _)
AdvanceTaxonomy(st, g, username, i, heap) ==
    IF i + 1 > Len(g.repos)
    THEN [out |-> "exhausted", i |-> i, heap |-> heap]
    ELSE IF ~db_exists(st, g.repos[i + 1])
         THEN [out |-> "raised", i |-> i, heap |-> heap]
         ELSE LET h == [k \in (DOMAIN heap) \cup {i + 1} |->
                          IF k = i + 1 THEN st[g.repos[i + 1]] ELSE heap[k]]
              IN IF YieldsRepo(g.unseen_only, h[i + 1], username)
                 THEN [out |-> "yield", i |-> i + 1, heap |-> h]
                 ELSE AdvanceTaxonomy(st, g, username, i + 1, h)

\* lines 201-218 and 302-309: annotate dispatches to annotate_taxonomy, which
\* creates the generator (lines 247-252 run at its first step)
annotate_taxonomy(username, unseen_only, repo, save) ==
    /\ pc = "idle"
    /\ LET user == IF username = "" THEN get_github_username ELSE username
           g == GenRepos(order, unseen_only, repo)
       IN /\ args' = [username |-> user, atype |-> "taxonomy",
                      unseen_only |-> unseen_only, repo |-> repo,
                      save |-> save]
          /\ gen' = [repos |-> g.repos, unseen_only |-> g.unseen_only,
                     i |-> 0, j |-> 0]
    /\ annotations' = NoAnnotations
    /\ store0' = store
    /\ pc' = "tpull"
    /\ UNCHANGED <<call, store, order, objs, cur, last, yielded, responses, saved,
                   answer>>

\* lines 309, 255-260: the for loop asks the generator for the next repository
TaxonomyNext ==
    /\ pc = "tpull"
    /\ LET r == AdvanceTaxonomy(store, gen, args.username, gen.i, objs)
       IN /\ gen' = [gen EXCEPT !.i = r.i]
          /\ objs' = r.heap
          /\ IF r.out = "yield"
             THEN /\ cur' = [obj |-> r.i, item |-> None]
                  /\ yielded' = Append(yielded, <<r.heap[r.i].uid, None>>)
                  /\ pc' = "prompt"
             ELSE /\ cur' = NoCur
                  /\ yielded' = yielded
                  /\ pc' = IF r.out = "raised" THEN "raised" ELSE "returned"
    /\ answer' = <<>>
    /\ UNCHANGED <<call, store, order, args, last, annotations, responses, saved,
                   store0>>

\* lines 311-326: the catalog is printed and the user answers the prompt
Prompt(tokens) ==
    /\ pc = "prompt"
    /\ answer' = tokens
    /\ pc' = "uids"
    /\ UNCHANGED <<call, store, order, args, gen, objs, cur, last, annotations,
                   yielded, responses, saved, store0>>

\* an assignment that replaces the whole taxonomy of the object
SetTaxonomyDropsOthers ==
    /\ pc = "uids"
    /\ \E iter \in SetIterations(answer) :
          LET r == TaxonomyUids(iter)
          IN IF r.raised
             THEN /\ pc' = "raised"
                  /\ objs' = objs
             ELSE /\ pc' = "tsave"
                  /\ objs' = [objs EXCEPT ![cur.obj].taxonomy =
                                [u \in {args.username} |-> r.uids]]
    /\ UNCHANGED <<call, store, order, args, gen, cur, last, annotations, yielded,
                   responses, saved, store0, answer>>

\* lines 328-334: the answer becomes the user's taxonomy of the object
SetTaxonomy ==
    /\ pc = "uids"
    /\ \E iter \in SetIterations(answer) :
          LET r == TaxonomyUids(iter)
              repo == objs[cur.obj]
          IN IF r.raised
             THEN /\ pc' = "raised"
                  /\ objs' = objs
             ELSE /\ pc' = "tsave"
                  /\ objs' = [objs EXCEPT ![cur.obj].taxonomy =
                                [u \in (DOMAIN repo.taxonomy)
                                         \cup {args.username} |->
                                    IF u = args.username THEN r.uids
                                    ELSE repo.taxonomy[u]]]
    /\ UNCHANGED <<call, store, order, args, gen, cur, last, annotations, yielded,
                   responses, saved, store0, answer>>

\* a write that honours the save argument, as annotate_criteria does
SaveTaxonomyIfAsked ==
    /\ pc = "tsave"
    /\ IF args.save
       THEN /\ store' = save_taxonomy(store, objs[cur.obj])
            /\ saved' = Append(saved, SaveEntry(objs[cur.obj].uid))
       ELSE UNCHANGED <<store, saved>>
    /\ annotations' =
          [u \in (DOMAIN annotations) \cup {objs[cur.obj].uid} |->
              IF u = objs[cur.obj].uid THEN objs[cur.obj].taxonomy
              ELSE annotations[u]]
    /\ answer' = <<>>
    /\ pc' = "tpull"
    /\ UNCHANGED <<call, order, args, gen, objs, cur, last, yielded, responses,
                   store0>>

\* lines 335-336: the object is written and recorded
SaveTaxonomy ==
    /\ pc = "tsave"
    /\ store' = save_taxonomy(store, objs[cur.obj])
    /\ saved' = Append(saved, SaveEntry(objs[cur.obj].uid))
    /\ annotations' =
          [u \in (DOMAIN annotations) \cup {objs[cur.obj].uid} |->
              IF u = objs[cur.obj].uid THEN objs[cur.obj].taxonomy
              ELSE annotations[u]]
    /\ answer' = <<>>
    /\ pc' = "tpull"
    /\ UNCHANGED <<call, order, args, gen, objs, cur, last, yielded, responses,
                   store0>>

(* ---------------------------------------------------------------------- *)
(* Specification of a taxonomy annotation call on some catalog             *)
(* ---------------------------------------------------------------------- *)

\* the taxonomies a stored repository may start with: none, or an empty or
\* a filled one of alice
StoredTaxonomies ==
    {NoTaxonomy, [u \in {"alice"} |-> <<>>], [u \in {"alice"} |-> <<"t1">>]}

InitTaxonomy ==
    /\ order \in InjSeqs(Uids)
    /\ \E tx \in [Range(order) -> StoredTaxonomies] :
          store = [u \in Range(order) |->
                      [NewRepo(u) EXCEPT !.taxonomy = tx[u]]]
    /\ Quiet

NextTaxonomy ==
    \/ \E username \in Users \cup {""}, unseen_only \in BOOLEAN,
          repo \in RepoArgs, save \in BOOLEAN :
          annotate_taxonomy(username, unseen_only, repo, save)
    \/ TaxonomyNext
    \/ \E tokens \in Answers : Prompt(tokens)
    \/ SetTaxonomy
    \/ SaveTaxonomy

SpecTaxonomy == InitTaxonomy /\ [][NextTaxonomy]_vars

(* ---------------------------------------------------------------------- *)
(* Properties of the taxonomy annotation                                   *)
(* ---------------------------------------------------------------------- *)

\* the taxonomy stored for the user on the object in hand
StoredUids == objs[cur.obj].taxonomy[args.username]

\* the uids of the catalog items an answer selects, in the order entered,
\* a repeated index counting where it is entered first
RECURSIVE EnteredOrder(_)
EnteredOrder(tokens) ==
    IF tokens = <<>> THEN <<>>
    ELSE LET n == Len(tokens)
             x == tokens[n]
             before == EnteredOrder(SubSeq(tokens, 1, n - 1))
             repeated == \E k \in 1..(n - 1) : tokens[k] = x
         IN IF IntOf(x) < Len(list_taxonomy) /\ ~repeated
            THEN Append(before, list_taxonomy[IntOf(x) + 1])
            ELSE before

\* C6: the value stored under taxonomy[username] is the sequence of the uids
\* of the selected catalog items in the order the user entered them.
C6_StoredInEnteredOrder ==
    pc = "tsave" => StoredUids = EnteredOrder(answer)

\* the uids of the catalog items addressed by the tokens of an answer
AddressedUids(tokens) ==
    {list_taxonomy[n] : n \in {k \in DOMAIN list_taxonomy :
                                  \E m \in DOMAIN tokens :
                                      IntOf(tokens[m]) = k - 1}}

OutOfRange(tokens) ==
    \E m \in DOMAIN tokens :
        IntOf(tokens[m]) < 0 \/ IntOf(tokens[m]) >= Len(list_taxonomy)

C8_SavedAtOncePerRepo ==
    /\ \A n \in DOMAIN yielded :
          SaveCount(yielded[n][1]) =
             IF n < Len(yielded) \/ pc \in {"tpull", "returned"} THEN 1 ELSE 0
    /\ \A k \in DOMAIN saved :
          /\ saved[k].nyield = k
          /\ yielded[k][1] = saved[k].uid
          /\ args.username \in DOMAIN store[saved[k].uid].taxonomy
    /\ Len(saved) <= Len(yielded)

\* a call without save has written two repositories in turn
C8_Witness ==
    /\ ~args.save
    /\ args.atype = "taxonomy"
    /\ pc = "returned"
    /\ Len(saved) = 2
    /\ Len(yielded) = 2

(* ---------------------------------------------------------------------- *)
(* Catalog operations                                                      *)
(* ---------------------------------------------------------------------- *)

\* the references a caller may pass: canonical uids, their url form and a
\* string no parser recognises
Refs == Uids \cup Urls \cup {"not-a-repo"}

ValidRef(ref) == ref \in Uids \cup Urls

\* what get_parser raises on a reference it rejects
InvalidReference == "InvalidReference"

RuntimeError == "RuntimeError"

\* the namespaces of the known parsers (rse.defaults.RSE_PARSERS)
RSE_PARSERS == {"github", "gitlab"}

\* the parser namespace a uid starts with
Namespace(uid) == "github"

\* re.search(parser_regex, target), parser_regex = "github"
MatchesParserRegex(target) == target \in Uids \cup Urls \cup {"github"}

\* db.add: the parser fetches the descriptive fields, the entity is persisted
db_add(st, uid, description) ==
    [u \in (DOMAIN st) \cup {uid} |->
        IF u = uid THEN [NewRepo(uid) EXCEPT !.description = description]
        ELSE st[u]]

\* db.list_repos after db.add
order_add(ord, uid) == IF uid \in Range(ord) THEN ord ELSE Append(ord, uid)

\* db.update: the descriptive fields are fetched again, annotations are kept
db_update(st, uid, description) ==
    [st EXCEPT ![uid].description = description]

\* db.clear, db.delete_parser, db.delete_repo: the catalog without `gone`
db_delete(st, gone) == [u \in (DOMAIN st) \ gone |-> st[u]]

order_delete(ord, gone) ==
    LET Kept(u) == u \notin gone IN SelectSeq(ord, Kept)

\* an exists that hands the reference to the backend as it came
ExistsRaw(st, ref) == db_exists(st, ref)

\* lines 81-86: Encyclopedia.exists, on a reference the parser accepts
Exists(st, ref) == db_exists(st, ParserUid(ref))

\* what a catalog operation leaves to look at: its arguments, what it
\* returned or raised, the backend operations it called, and the catalog it
\* was called on
Outcome(op, arg, value, raised, backend) ==
    [op |-> op, arg |-> arg, value |-> value, raised |-> raised,
     backend |-> backend, before |-> [store |-> store, order |-> order]]

AnnotationIdle ==
    /\ pc = "idle"
    /\ UNCHANGED <<pc, args, gen, objs, cur, last, annotations, yielded,
                   responses, saved, store0, answer>>

\* lines 81-86
exists(ref) ==
    /\ AnnotationIdle
    /\ call' = IF ValidRef(ref)
               THEN Outcome("exists", ref, <<Exists(store, ref)>>, None,
                            <<"exists">>)
               ELSE Outcome("exists", ref, <<>>, InvalidReference, <<>>)
    /\ UNCHANGED <<store, order>>

\* an add that does not look first
addUnchecked(ref, quiet) ==
    /\ AnnotationIdle
    /\ ValidRef(ref)
    /\ \E d \in Descriptions :
          /\ store' = db_add(store, ParserUid(ref), d)
          /\ order' = Append(order, ParserUid(ref))
          /\ call' = Outcome("add", ref, <<store'[ParserUid(ref)]>>, None,
                             <<"exists", "add">>)

\* lines 132-139
add(ref, quiet) ==
    /\ AnnotationIdle
    /\ IF ~ValidRef(ref)
       THEN /\ call' = Outcome("add", ref, <<>>, InvalidReference, <<>>)
            /\ UNCHANGED <<store, order>>
       ELSE IF ~Exists(store, ref)
       THEN \E d \in Descriptions :
               /\ store' = db_add(store, ParserUid(ref), d)
               /\ order' = order_add(order, ParserUid(ref))
               /\ call' = Outcome("add", ref, <<store'[ParserUid(ref)]>>,
                                  None, <<"exists", "add">>)
       ELSE /\ call' = Outcome("add", ref, <<>>, None, <<"exists">>)
            /\ UNCHANGED <<store, order>>

\* db.get: the entity of a reference, the entity modified last when none is
\* given (any stored one here), or the lookup error
db_get(st, ref) ==
    IF ref = None
    THEN IF DOMAIN st = {} THEN {[raised |-> RepoNotFoundError, value |-> <<>>]}
         ELSE {[raised |-> None, value |-> <<st[u]>>] : u \in DOMAIN st}
    ELSE IF ~ValidRef(ref)
    THEN {[raised |-> InvalidReference, value |-> <<>>]}
    ELSE IF db_exists(st, ParserUid(ref))
    THEN {[raised |-> None, value |-> <<st[ParserUid(ref)]>>]}
    ELSE {[raised |-> RepoNotFoundError, value |-> <<>>]}

\* a get that turns a missing repository into None, as update does
getCaught(ref) ==
    /\ AnnotationIdle
    /\ \E r \in db_get(store, ref) :
          call' = Outcome("get", ref, r.value,
                          IF r.raised = RepoNotFoundError THEN None
                          ELSE r.raised,
                          <<"get">>)
    /\ UNCHANGED <<store, order>>

\* lines 141-145
get(ref) ==
    /\ AnnotationIdle
    /\ \E r \in db_get(store, ref) :
          call' = Outcome("get", ref, r.value, r.raised, <<"get">>)
    /\ UNCHANGED <<store, order>>

\* an update without the try/except around its lookup
updateUncaught(ref) ==
    /\ AnnotationIdle
    /\ \E r \in db_get(store, ref) :
          IF r.raised = None
          THEN \E d \in Descriptions :
                  /\ store' = db_update(store, r.value[1].uid, d)
                  /\ call' = Outcome("update", ref,
                                     <<store'[r.value[1].uid]>>, None,
                                     <<"get", "update">>)
          ELSE /\ store' = store
               /\ call' = Outcome("update", ref, <<>>, r.raised, <<"get">>)
    /\ order' = order

\* lines 178-187
update(ref) ==
    /\ AnnotationIdle
    /\ \E r \in db_get(store, ref) :
          IF r.raised = None
          THEN \E d \in Descriptions :
                  /\ store' = db_update(store, r.value[1].uid, d)
                  /\ call' = Outcome("update", ref,
                                     <<store'[r.value[1].uid]>>, None,
                                     <<"get", "update">>)
          ELSE /\ store' = store
               /\ call' = Outcome("update", ref, <<>>,
                                  IF r.raised = RepoNotFoundError THEN None
                                  ELSE r.raised,
                                  <<"get">>)
    /\ order' = order

\* the text a query is matched against
Queries == Descriptions \cup {"nomatch"}

Matches(repo, query) == repo.description = query

RECURSIVE db_search(_, _, _)
\* the backend's search: the matching repositories in listing order, an empty
\* result when nothing matches
db_search(st, ord, query) ==
    IF ord = <<>> THEN <<>>
    ELSE (IF Matches(st[Head(ord)], query) THEN <<Head(ord)>> ELSE <<>>)
         \o db_search(st, Tail(ord), query)

\* a search that raises when nothing is found
searchRaisesOnEmpty(query) ==
    /\ AnnotationIdle
    /\ LET results == db_search(store, order, query)
       IN call' = IF results # <<>>
                  THEN Outcome("search", query, <<results>>, None, <<"search">>)
                  ELSE Outcome("search", query, <<>>, RepoNotFoundError,
                               <<"search">>)
    /\ UNCHANGED <<store, order>>

\* lines 189-197: the results when there are any, else a message and None
search(query) ==
    /\ AnnotationIdle
    /\ LET results == db_search(store, order, query)
       IN call' = IF results # <<>>
                  THEN Outcome("search", query, <<results>>, None, <<"search">>)
                  ELSE Outcome("search", query, <<>>, None, <<"search">>)
    /\ UNCHANGED <<store, order>>

\* a clear that takes a parser namespace for no target at all
ClearCaseNoParsers(target) ==
    IF target = None \/ target = "" \/ target \in RSE_PARSERS THEN "all"
    ELSE IF MatchesParserRegex(target) THEN "repo"
    ELSE "unrecognized"

\* a clear without the final else: what is not recognised clears everything
ClearCaseLenient(target) ==
    IF target = None \/ target = "" THEN "all"
    ELSE IF target \in RSE_PARSERS THEN "parser"
    ELSE IF MatchesParserRegex(target) THEN "repo"
    ELSE "all"

\* lines 155, 162, 169, 175: the case clear takes for a target
ClearCase(target) ==
    IF target = None \/ target = "" THEN "all"
    ELSE IF target \in RSE_PARSERS THEN "parser"
    ELSE IF MatchesParserRegex(target) THEN "repo"
    ELSE "unrecognized"

ClearArg(target, noprompt, confirmed) ==
    [target |-> target, noprompt |-> noprompt, confirmed |-> confirmed]

\* lines 150-176; `confirmed` is the answer to the confirmation prompt
clear(target, noprompt, confirmed) ==
    /\ AnnotationIdle
    /\ LET arg == ClearArg(target, noprompt, confirmed)
           case == ClearCase(target)
       IN IF case = "unrecognized"
          THEN /\ call' = Outcome("clear", arg, <<>>, RuntimeError, <<>>)
               /\ UNCHANGED <<store, order>>
          ELSE IF ~(noprompt \/ confirmed)
          THEN /\ call' = Outcome("clear", arg, <<>>, None, <<>>)
               /\ UNCHANGED <<store, order>>
          ELSE IF case = "all"
          THEN /\ store' = db_delete(store, DOMAIN store)
               /\ order' = <<>>
               /\ call' = Outcome("clear", arg, <<>>, None, <<"clear">>)
          ELSE IF case = "parser"
          THEN LET gone == {u \in DOMAIN store : Namespace(u) = target}
               IN /\ store' = db_delete(store, gone)
                  /\ order' = order_delete(order, gone)
                  /\ call' = Outcome("clear", arg, <<>>, None,
                                     <<"delete_parser">>)
          ELSE IF db_exists(store, ParserUid(target))
          THEN /\ store' = db_delete(store, {ParserUid(target)})
               /\ order' = order_delete(order, {ParserUid(target)})
               /\ call' = Outcome("clear", arg, <<>>, None, <<"delete_repo">>)
          ELSE /\ \E raised \in {None, RepoNotFoundError} :
                     call' = Outcome("clear", arg, <<>>, raised,
                                     <<"delete_repo">>)
               /\ UNCHANGED <<store, order>>

(* ---------------------------------------------------------------------- *)
(* Specification of the catalog operations                                 *)
(* ---------------------------------------------------------------------- *)

InitCatalog ==
    /\ store = [u \in {} |-> NewRepo(None)]
    /\ order = <<>>
    /\ Quiet

ClearTargets == {None, "github", "gitlab", "zenodo"} \cup Uids \cup Urls

NextCatalog ==
    \/ \E ref \in Refs : exists(ref)
    \/ \E ref \in Refs, quiet \in BOOLEAN : add(ref, quiet)
    \/ \E ref \in Refs \cup {None} : get(ref)
    \/ \E ref \in Refs \cup {None} : update(ref)
    \/ \E target \in ClearTargets, noprompt \in BOOLEAN, confirmed \in BOOLEAN :
          clear(target, noprompt, confirmed)
    \/ \E query \in Queries : search(query)

SpecCatalog == InitCatalog /\ [][NextCatalog]_vars

(* ---------------------------------------------------------------------- *)
(* Properties of add                                                       *)
(* ---------------------------------------------------------------------- *)

EntitiesWithUid(uid) == Cardinality({n \in DOMAIN order : order[n] = uid})

\* C9: an add of a uid that is in the catalog calls no backend add, raises
\* nothing, returns no entity and leaves the catalog as it was, and no uid
\* is ever held by more than one entity.
C9_SecondAddIsNoOp ==
    /\ [](\A u \in Uids :
            /\ EntitiesWithUid(u) <= 1
            /\ EntitiesWithUid(u) = 1 <=> u \in DOMAIN store)
    /\ [][(/\ call'.op = "add"
           /\ ValidRef(call'.arg)
           /\ db_exists(store, ParserUid(call'.arg)))
          => (/\ store' = store
              /\ order' = order
              /\ call'.value = <<>>
              /\ call'.raised = None
              /\ \A n \in DOMAIN call'.backend : call'.backend[n] # "add"
              /\ EntitiesWithUid(ParserUid(call'.arg)) = 1)]_vars

\* the url form of a uid held by the catalog was added, to no effect
C9_Witness ==
    /\ call.op = "add"
    /\ call.arg \in Urls
    /\ call.value = <<>>
    /\ call.raised = None
    /\ EntitiesWithUid(ParserUid(call.arg)) = 1

\* C10: right after add(uid) put a new entity in the catalog, exists(uid) is
\* true and get(uid) returns an entity whose uid is the uid the parser makes
\* of the input.
C10_AddThenExistsAndGet ==
    (call.op = "add" /\ call.value # <<>>)
        => /\ Exists(store, call.arg)
           /\ \A r \in db_get(store, call.arg) :
                 /\ r.raised = None
                 /\ r.value[1].uid = ParserUid(call.arg)
                 /\ r.value[1] = call.value[1]

\* a catalog entity was made from the url form of a reference
C10_Witness ==
    /\ call.op = "add"
    /\ call.arg \in Urls
    /\ call.value # <<>>
    /\ call.raised = None

\* the catalog is what it was when the operation was called
CatalogUnchanged == store = call.before.store /\ order = call.before.order

\* the catalog is the one the operation was called on without the entities
\* `gone`, every other entity as it was and in its place
CatalogWithout(gone) ==
    /\ DOMAIN store = DOMAIN call.before.store \ gone
    /\ \A u \in DOMAIN store : store[u] = call.before.store[u]
    /\ order = order_delete(call.before.order, gone)

Cleared == call.op = "clear" /\ (call.arg.noprompt \/ call.arg.confirmed)

Unrecognized(target) ==
    /\ target \notin {None, ""}
    /\ target \notin RSE_PARSERS
    /\ ~MatchesParserRegex(target)

\* C12: a clear whose target is not empty, not a parser namespace and not a
\* repository identifier raises a runtime error and deletes nothing, whether
\* or not it was confirmed.
C12_UnrecognizedTargetRaises ==
    call.op = "clear" /\ Unrecognized(call.arg.target) =>
        /\ call.raised = RuntimeError
        /\ call.backend = <<>>
        /\ CatalogUnchanged

C12_Witness ==
    /\ call.op = "clear"
    /\ Unrecognized(call.arg.target)
    /\ call.arg.noprompt
    /\ call.raised = RuntimeError
    /\ DOMAIN store # {}

Missing(ref) == ValidRef(ref) /\ ~db_exists(call.before.store, ParserUid(ref))

\* C14: an update of a repository that is not in the catalog does not raise:
\* it returns None, never reaches the backend's update, and leaves the
\* catalog as it was.
C14_UpdateMissingReturnsNone ==
    call.op = "update" /\ Missing(call.arg) =>
        /\ call.raised = None
        /\ call.value = <<>>
        /\ \A n \in DOMAIN call.backend : call.backend[n] # "update"
        /\ CatalogUnchanged

C14_Witness ==
    /\ call.op = "update"
    /\ Missing(call.arg)
    /\ call.value = <<>>
    /\ DOMAIN store # {}

\* C15 as stated: a get of a repository that is not in the catalog gives None
\* and raises nothing.
C15_GetMissingReturnsNone ==
    call.op = "get" /\ Missing(call.arg) =>
        call.raised = None /\ call.value = <<>>

\* C15: a get of a repository that is not in the catalog raises
\* RepoNotFoundError to its caller, returns nothing, and leaves the catalog
\* as it was.
C15_GetMissingRaises ==
    call.op = "get" /\ Missing(call.arg) =>
        /\ call.raised = RepoNotFoundError
        /\ call.value = <<>>
        /\ CatalogUnchanged

C15_Witness ==
    /\ call.op = "get"
    /\ Missing(call.arg)
    /\ call.raised = RepoNotFoundError
    /\ DOMAIN store # {}

\* C17: a search never raises and leaves the catalog as it was; when nothing
\* matches it returns None, and when something matches it returns exactly
\* the backend's matches.
C17_SearchReturnsMatchesOrNone ==
    call.op = "search" =>
        LET results == db_search(call.before.store, call.before.order,
                                 call.arg)
        IN /\ call.raised = None
           /\ CatalogUnchanged
           /\ results = <<>> => call.value = <<>>
           /\ results # <<>> => call.value = <<results>>

C17_Witness ==
    /\ call.op = "search"
    /\ call.value = <<>>
    /\ DOMAIN store # {}

(* ---------------------------------------------------------------------- *)
(* Bulk operations: bulk_add and bulk_update over the lines of a file       *)
(* ---------------------------------------------------------------------- *)

\* the longest file of references
MaxLines == 2

\* read_file(filename): the lines of the file, each a repository reference
Files == UNION {[1..n -> Refs] : n \in 0..MaxLines}

\* the loop's state: the catalog so far, the list `repos` built so far
\* (<<>> for a None element), the backend operations called so far, and the
\* exception that ended the loop, if any
BulkStart(st, ord) ==
    [store |-> st, order |-> ord, value |-> <<>>, backend |-> <<>>,
     raised |-> None]

\* a bulk_add whose loop ends at the first reference already in the catalog
BulkAddEntryAbortsOnExisting(acc, ref, d) ==
    IF ~ValidRef(ref) THEN [acc EXCEPT !.raised = InvalidReference]
    ELSE IF Exists(acc.store, ref)
    THEN [acc EXCEPT !.raised = RuntimeError,
                     !.backend = Append(@, <<"exists", ParserUid(ref)>>)]
    ELSE [acc EXCEPT
            !.store = db_add(acc.store, ParserUid(ref), d),
            !.order = order_add(acc.order, ParserUid(ref)),
            !.value = Append(@, <<db_add(acc.store, ParserUid(ref), d)
                                    [ParserUid(ref)]>>),
            !.backend = @ \o <<<<"exists", ParserUid(ref)>>,
                               <<"add", ParserUid(ref)>>>>]

\* a bulk_add that leaves a None out of its list
BulkAddEntryOmitsNone(acc, ref, d) ==
    IF ~ValidRef(ref) THEN [acc EXCEPT !.raised = InvalidReference]
    ELSE IF Exists(acc.store, ref)
    THEN [acc EXCEPT !.backend = Append(@, <<"exists", ParserUid(ref)>>)]
    ELSE [acc EXCEPT
            !.store = db_add(acc.store, ParserUid(ref), d),
            !.order = order_add(acc.order, ParserUid(ref)),
            !.value = Append(@, <<db_add(acc.store, ParserUid(ref), d)
                                    [ParserUid(ref)]>>),
            !.backend = @ \o <<<<"exists", ParserUid(ref)>>,
                               <<"add", ParserUid(ref)>>>>]

\* lines 115-116: one line of bulk_add, self.add(uid, quiet=True)
BulkAddEntry(acc, ref, d) ==
    IF ~ValidRef(ref) THEN [acc EXCEPT !.raised = InvalidReference]
    ELSE IF Exists(acc.store, ref)
    THEN [acc EXCEPT !.value = Append(@, <<>>),
                     !.backend = Append(@, <<"exists", ParserUid(ref)>>)]
    ELSE [acc EXCEPT
            !.store = db_add(acc.store, ParserUid(ref), d),
            !.order = order_add(acc.order, ParserUid(ref)),
            !.value = Append(@, <<db_add(acc.store, ParserUid(ref), d)
                                    [ParserUid(ref)]>>),
            !.backend = @ \o <<<<"exists", ParserUid(ref)>>,
                               <<"add", ParserUid(ref)>>>>]

\* lines 125-130: one line of bulk_update, self.update(uid) in a try/except
\* of RepoNotFoundError; update itself returns None for a missing repository
BulkUpdateEntry(acc, ref, d) ==
    IF ~ValidRef(ref) THEN [acc EXCEPT !.raised = InvalidReference]
    ELSE IF db_exists(acc.store, ParserUid(ref))
    THEN [acc EXCEPT
            !.store = db_update(acc.store, ParserUid(ref), d),
            !.value = Append(@, <<db_update(acc.store, ParserUid(ref), d)
                                    [ParserUid(ref)]>>),
            !.backend = @ \o <<<<"get", ParserUid(ref)>>,
                               <<"update", ParserUid(ref)>>>>]
    ELSE [acc EXCEPT !.value = Append(@, <<>>),
                     !.backend = Append(@, <<"get", ParserUid(ref)>>)]

RECURSIVE BulkAddRun(_, _, _)
\* lines 114-116: the loop over the lines, ended by an exception
BulkAddRun(acc, file, ds) ==
    IF file = <<>> \/ acc.raised # None THEN acc
    ELSE BulkAddRun(BulkAddEntry(acc, Head(file), Head(ds)),
                    Tail(file), Tail(ds))

RECURSIVE BulkUpdateRun(_, _, _)
\* lines 124-130
BulkUpdateRun(acc, file, ds) ==
    IF file = <<>> \/ acc.raised # None THEN acc
    ELSE BulkUpdateRun(BulkUpdateEntry(acc, Head(file), Head(ds)),
                       Tail(file), Tail(ds))

BulkArg(file, present) == [file |-> file, present |-> present]

\* what bulk_add and bulk_update leave: the list `repos`, or the exception
BulkOutcome(op, file, present, r) ==
    Outcome(op, BulkArg(file, present),
            IF r.raised = None THEN <<r.value>> ELSE <<>>,
            r.raised, r.backend)

\* lines 109-117; `present` is os.path.exists(filename)
bulk_add(file, present) ==
    /\ AnnotationIdle
    /\ call.op = None
    /\ \E ds \in [1..Len(file) -> Descriptions] :
          LET r == IF present
                   THEN BulkAddRun(BulkStart(store, order), file, ds)
                   ELSE BulkStart(store, order)
          IN /\ store' = r.store
             /\ order' = r.order
             /\ call' = BulkOutcome("bulk_add", file, present, r)

\* lines 119-130
bulk_update(file, present) ==
    /\ AnnotationIdle
    /\ call.op = None
    /\ \E ds \in [1..Len(file) -> Descriptions] :
          LET r == IF present
                   THEN BulkUpdateRun(BulkStart(store, order), file, ds)
                   ELSE BulkStart(store, order)
          IN /\ store' = r.store
             /\ order' = r.order
             /\ call' = BulkOutcome("bulk_update", file, present, r)

\* a catalog of repositories without annotations, in any listing order
InitBulk ==
    /\ order \in InjSeqs(Uids)
    /\ store = [u \in Range(order) |-> NewRepo(u)]
    /\ Quiet

NextBulk ==
    \/ \E file \in Files, present \in BOOLEAN : bulk_add(file, present)
    \/ \E file \in Files, present \in BOOLEAN : bulk_update(file, present)

SpecBulk == InitBulk /\ [][NextBulk]_vars

\* the uids the lines of a file stand for, in file order
FileUids(file) == [n \in 1..Len(file) |-> ParserUid(file[n])]

\* the uids the operation handed to one backend operation, in call order
LoggedUids(kind) ==
    LET Is(e) == e[1] = kind
        sel == SelectSeq(call.backend, Is)
    IN [n \in 1..Len(sel) |-> sel[n][2]]

RECURSIVE FirstNew(_, _)
\* the uids of a list that are not in `seen`, each at its first place
FirstNew(uids, seen) ==
    IF uids = <<>> THEN <<>>
    ELSE IF Head(uids) \in seen THEN FirstNew(Tail(uids), seen)
    ELSE <<Head(uids)>> \o FirstNew(Tail(uids), seen \cup {Head(uids)})

\* a bulk operation over a file that exists and holds repository references
BulkOver(op) ==
    /\ call.op = op
    /\ call.arg.present
    /\ \A n \in DOMAIN call.arg.file : ValidRef(call.arg.file[n])

\* C13: bulk_add and bulk_update look at every line of the file in order; a
\* line that fails (already in the catalog for bulk_add, not in the catalog
\* for bulk_update) is skipped without ending the batch, and every other
\* line is added, resp. updated.
C13_BulkSkipsFailingEntries ==
    /\ BulkOver("bulk_add") =>
          LET uids == FileUids(call.arg.file)
              new == FirstNew(uids, DOMAIN call.before.store)
          IN /\ call.raised = None
             /\ LoggedUids("exists") = uids
             /\ LoggedUids("add") = new
             /\ order = call.before.order \o new
             /\ DOMAIN store = DOMAIN call.before.store \cup Range(uids)
             /\ \A u \in DOMAIN call.before.store :
                   store[u] = call.before.store[u]
    /\ BulkOver("bulk_update") =>
          LET uids == FileUids(call.arg.file)
              Known(u) == u \in DOMAIN call.before.store
          IN /\ call.raised = None
             /\ LoggedUids("get") = uids
             /\ LoggedUids("update") = SelectSeq(uids, Known)
             /\ order = call.before.order
             /\ DOMAIN store = DOMAIN call.before.store

C13_Witness ==
    /\ BulkOver("bulk_add")
    /\ Len(call.arg.file) = 2
    /\ ParserUid(call.arg.file[1]) \in DOMAIN call.before.store
    /\ ParserUid(call.arg.file[2]) \notin DOMAIN call.before.store
    /\ ParserUid(call.arg.file[2]) \in DOMAIN store

(* ---------------------------------------------------------------------- *)
(* Backend selection: Encyclopedia.initdb                                   *)
(* ---------------------------------------------------------------------- *)

\* A database kind is a string, here the sequence of its parts, so that
\* str.startswith is the prefix test it is; <<>> is a missing or empty value.
filesystem == <<"filesystem">>

\* line 66
valid == {<<"sqlite">>, <<"postgresql">>, <<"mysql", "+pymysql">>, filesystem}

\* the kinds a caller, the environment or the configuration may name
Kinds ==
    valid \cup {<<"mysql">>, <<"sqlite", "3">>, <<"postgresql", "+psycopg2">>,
                <<"mongodb">>}

StartsWith(s, prefix) ==
    /\ Len(prefix) <= Len(s)
    /\ SubSeq(s, 1, Len(prefix)) = prefix

\* lines 56-61: the first of argument, environment, configuration that is
\* not empty, else the default
Selected(database, env, config) ==
    IF database # <<>> THEN database
    ELSE IF env # <<>> THEN env
    ELSE IF config # <<>> THEN config
    ELSE filesystem

\* a test for one of the names of line 66 itself
SupportedExact(kind) == kind \in valid

\* line 67: self.database.startswith(valid)
Supported(kind) == \E name \in valid : StartsWith(kind, name)

\* init_db: the backend built for a kind
init_db(kind) ==
    IF kind = filesystem THEN "FileSystemDatabase" ELSE "RelationalDatabase"

InitdbArg(database, env, config) ==
    [database |-> database, RSE_DATABASE |-> env, config |-> config]

\* lines 47-79; the value is self.database, the backend is self.db
initdb(database, env, config) ==
    /\ AnnotationIdle
    /\ call.op = None
    /\ LET selected == Selected(database, env, config)
           kind == IF Supported(selected) THEN selected ELSE filesystem
       IN call' = Outcome("initdb", InitdbArg(database, env, config),
                          <<kind>>, None, <<init_db(kind)>>)
    /\ UNCHANGED <<store, order>>

NextInitdb ==
    \E database \in Kinds \cup {<<>>}, env \in Kinds \cup {<<>>},
       config \in Kinds \cup {<<>>} : initdb(database, env, config)

SpecInitdb == InitCatalog /\ [][NextInitdb]_vars

\* the kind initdb was asked for
Asked == Selected(call.arg.database, call.arg.RSE_DATABASE, call.arg.config)

\* C16 as stated: a selected kind that is not one of filesystem, sqlite,
\* postgresql, mysql+pymysql is replaced by filesystem and the filesystem
\* backend is built; one of the four is kept.
C16_OnlyTheFourNamesKept ==
    call.op = "initdb" =>
        /\ call.raised = None
        /\ Asked \in valid => call.value = <<Asked>>
        /\ Asked \notin valid =>
              call.value = <<filesystem>>
              /\ call.backend = <<"FileSystemDatabase">>

\* C16: a selected kind that does not start with one of the names
\* filesystem, sqlite, postgresql, mysql+pymysql is replaced by filesystem
\* and the filesystem backend is built, without failure; a kind that starts
\* with one of the names is kept as given.
C16_UnsupportedFallsBack ==
    call.op = "initdb" =>
        /\ call.raised = None
        /\ (\E name \in valid : StartsWith(Asked, name)) =>
              call.value = <<Asked>>
        /\ ~(\E name \in valid : StartsWith(Asked, name)) =>
              call.value = <<filesystem>>
              /\ call.backend = <<"FileSystemDatabase">>

C16_Witness ==
    /\ call.op = "initdb"
    /\ call.arg.database = <<>>
    /\ call.arg.RSE_DATABASE = <<"mongodb">>
    /\ call.arg.config = <<"sqlite">>
    /\ call.value = <<filesystem>>
    /\ call.backend = <<"FileSystemDatabase">>

(* ---------------------------------------------------------------------- *)
(* Criteria and taxonomy annotation on a catalog with two annotators        *)
(* ---------------------------------------------------------------------- *)

\* a repository both users have annotated
AnnotatedRepo(uid) ==
    [NewRepo(uid) EXCEPT
        !.criteria = (<<"c1", "alice">> :> TRUE) @@ (<<"c1", "bob">> :> FALSE),
        !.taxonomy = ("alice" :> <<"t1">>) @@ ("bob" :> <<"t0">>)]

InitAnnotate ==
    /\ order \in InjSeqs(Uids)
    /\ \E done \in SUBSET Range(order) :
          store = [u \in Range(order) |->
                      IF u \in done THEN AnnotatedRepo(u) ELSE NewRepo(u)]
    /\ Quiet

NextAnnotate == NextCriteria \/ NextTaxonomy

SpecAnnotate == InitAnnotate /\ [][NextAnnotate]_vars

\* the entries of the annotators other than the one of the run are, on
\* repository `now`, the entries they had on `was`
OthersKept(now, was) ==
    \A v \in Users \ {args.username} :
        /\ \A item \in CriteriaItems :
              /\ <<item, v>> \in DOMAIN now.criteria
                    <=> <<item, v>> \in DOMAIN was.criteria
              /\ <<item, v>> \in DOMAIN now.criteria
                    => now.criteria[<<item, v>>] = was.criteria[<<item, v>>]
        /\ v \in DOMAIN now.taxonomy <=> v \in DOMAIN was.taxonomy
        /\ v \in DOMAIN now.taxonomy => now.taxonomy[v] = was.taxonomy[v]

\* no entry of `was` is missing from `now`
NothingDropped(now, was) ==
    /\ DOMAIN was.criteria \subseteq DOMAIN now.criteria
    /\ DOMAIN was.taxonomy \subseteq DOMAIN now.taxonomy

\* the positions of the responses given for an item of a repository
ResponsesTo(uid, item) ==
    {n \in DOMAIN responses :
        responses[n].uid = uid /\ responses[n].item = item}

\* the user's entry for an answered item is the last response given for it
LastResponseStands(repo) ==
    \A item \in CriteriaItems :
        LET ns == ResponsesTo(repo.uid, item)
        IN ns # {} =>
              /\ <<item, args.username>> \in DOMAIN repo.criteria
              /\ \E n \in ns :
                    /\ \A m \in ns : m <= n
                    /\ repo.criteria[<<item, args.username>>]
                          = responses[n].response

\* C18: a criteria or taxonomy annotation run of a user leaves every entry
\* of the other annotators as it was, on every stored repository and on
\* every repository object of the run, and drops no entry; the user's own
\* entry for an item is a single value, the last response given.
C18_OnlyOwnEntriesWritten ==
    /\ \A u \in DOMAIN store :
          OthersKept(store[u], store0[u]) /\ NothingDropped(store[u], store0[u])
    /\ \A k \in DOMAIN objs :
          /\ OthersKept(objs[k], store0[objs[k].uid])
          /\ NothingDropped(objs[k], store0[objs[k].uid])
          /\ LastResponseStands(objs[k])

\* alice's taxonomy of a repository bob has classified too is overwritten
\* and written
C18_Witness ==
    /\ pc = "returned"
    /\ args.atype = "taxonomy"
    /\ args.username = "alice"
    /\ \E u \in DOMAIN store :
          /\ "bob" \in DOMAIN store0[u].taxonomy
          /\ "alice" \in DOMAIN store0[u].taxonomy
          /\ store[u].taxonomy["alice"] # store0[u].taxonomy["alice"]

\* what a run on one given repository hands out: every item of the
\* repository, resp. the repository
GivenRepoYields ==
    IF args.atype = "criteria"
    THEN [n \in DOMAIN list_criteria |->
             <<ParserUid(args.repo), list_criteria[n]>>]
    ELSE <<<<ParserUid(args.repo), None>>>>

\* C19: when a repository is given to criteria or taxonomy annotation,
\* unseen_only is taken as false whatever was passed: only that repository
\* is traversed and every criteria item, resp. the repository, is handed
\* out, answered already or not.
C19_GivenRepoYieldsAll ==
    (pc # "idle" /\ args.repo # None) =>
        /\ ~gen.unseen_only
        /\ gen.repos = <<ParserUid(args.repo)>>
        /\ StartsWith(GivenRepoYields, yielded)
        /\ pc = "returned" => yielded = GivenRepoYields

\* a criteria run with unseen_only on a repository alice answered c1 on
C19_Witness ==
    /\ pc = "returned"
    /\ args.atype = "criteria"
    /\ args.unseen_only
    /\ args.repo \in Uids
    /\ has_criteria_annotation(store0[args.repo], "c1", args.username)
    /\ Len(yielded) = Len(list_criteria)

\* the repositories of list() the user has no filled taxonomy on
UnclassifiedRepos(st, ord, username) ==
    LET Open(u) == ~has_taxonomy_annotation(st[u], username)
        sel == SelectSeq(list_repos(ord), Open)
    IN [n \in DOMAIN sel |-> <<sel[n], None>>]

\* C20: with unseen_only set and no repository given, a taxonomy run hands
\* out exactly the repositories of list() on which the user has no entry or
\* an empty one, each once and in list order; a repository the user has a
\* non-empty selection on is never handed out.
C20_UnclassifiedReposInOrder ==
    (args.atype = "taxonomy" /\ args.unseen_only /\ args.repo = None) =>
        /\ StartsWith(UnclassifiedRepos(store0, order, args.username), yielded)
        /\ pc = "returned" =>
              yielded = UnclassifiedRepos(store0, order, args.username)

\* a run that hands out a repository with an empty entry of the user and
\* passes over one with a filled entry
C20_Witness ==
    /\ pc = "returned"
    /\ args.atype = "taxonomy" /\ args.unseen_only /\ args.repo = None
    /\ \E u \in YieldedUids :
          /\ args.username \in DOMAIN store0[u].taxonomy
          /\ store0[u].taxonomy[args.username] = <<>>
    /\ \E u \in DOMAIN store0 :
          /\ has_taxonomy_annotation(store0[u], args.username)
          /\ u \notin YieldedUids

\* a list of uids without a repeated element
NoRepeat(uids) ==
    \A a, b \in DOMAIN uids : uids[a] = uids[b] => a = b

ObjectOf(uid) == CHOOSE k \in DOMAIN objs : objs[k].uid = uid

\* C22: a criteria run with save=False writes nothing, at a boundary or at
\* the end, so the catalog is the one the run started on; the mapping it
\* returns has one entry per repository that handed out a pair, holding the
\* criteria of the repository object with the responses of the run.
C22_NoSaveNoWrite ==
    (args.atype = "criteria" /\ ~args.save) =>
        /\ store = store0
        /\ saved = <<>>
        /\ pc = "returned" =>
              /\ DOMAIN annotations = YieldedUids
              /\ \A u \in YieldedUids :
                    /\ annotations[u] = objs[ObjectOf(u)].criteria
                    /\ \A item \in CriteriaItems :
                          LET ns == ResponsesTo(u, item)
                          IN ns # {} =>
                                \E n \in ns :
                                   /\ \A m \in ns : m <= n
                                   /\ annotations[u][<<item, args.username>>]
                                         = responses[n].response

\* a run without save over two repositories returned both, one of them
\* with an answer the catalog does not hold
C22_Witness ==
    /\ pc = "returned"
    /\ args.atype = "criteria"
    /\ ~args.save
    /\ Cardinality(DOMAIN annotations) = 2
    /\ \E u \in DOMAIN annotations : annotations[u] # store[u].criteria

\* the lines of the file a bulk operation skips
Skipped(n) ==
    LET uids == FileUids(call.arg.file)
    IN IF call.op = "bulk_add"
       THEN \/ uids[n] \in DOMAIN call.before.store
            \/ \E m \in 1..(n - 1) : uids[m] = uids[n]
       ELSE uids[n] \notin DOMAIN call.before.store

\* C23: the list bulk_add and bulk_update return has one element per line
\* of the file, in file order: the entity of the line when it was added,
\* resp. updated, and None when the line was skipped.
C23_OneResultPerLine ==
    (BulkOver("bulk_add") \/ BulkOver("bulk_update")) =>
        /\ call.raised = None
        /\ Len(call.value) = 1
        /\ DOMAIN call.value[1] = DOMAIN call.arg.file
        /\ \A n \in DOMAIN call.arg.file :
              IF Skipped(n)
              THEN call.value[1][n] = <<>>
              ELSE /\ Len(call.value[1][n]) = 1
                   /\ call.value[1][n][1].uid = FileUids(call.arg.file)[n]

\* a bulk_update of a missing and then a stored repository returned None
\* and the entity
C23_Witness ==
    /\ BulkOver("bulk_update")
    /\ Len(call.arg.file) = 2
    /\ Skipped(1)
    /\ ~Skipped(2)
    /\ call.value[1][1] = <<>>
    /\ call.value[1][2] # <<>>

====
